---- MODULE Spec2Model ----
(***************************************************************************)
(* Model of the client-side image sanitizer of raithend/blackbuck:         *)
(* removeExifData (resize/compress variant) and removeExifDataFromFiles,   *)
(* as a state machine over the browser callbacks that drive them           *)
(* (FileReader.onload/onerror, Image.onload/onerror, canvas.toBlob).       *)
(*                                                                         *)
(* Numbers.  `quality` is an IEEE-754 binary64 value in the code and the   *)
(* comparison `quality > 0.3` is sensitive to its rounding, so quality is  *)
(* modelled bit-exactly (see Q* below).  Widths and heights are binary64   *)
(* too; they are modelled as exact rationals <<num, den>>, which differ    *)
(* from the computed values by the rounding of at most a few operations.   *)
(***************************************************************************)
EXTENDS Integers, Sequences, FiniteSets

----------------------------------------------------------------------------
(* Program constants *)

\* default of the parameter maxSize: 4 * 1024 * 1024
DefaultMaxSize == 4194304

\* default of the parameter maxDimension
DefaultMaxDimension == 1920

\* the dimension floor of the search (`> 800`, `Math.min(..., 800)`)
FloorDimension == 800

----------------------------------------------------------------------------
(* Bounds of the model *)

\* longest array handed to removeExifDataFromFiles
MaxFiles == 2

\* how many times a resolved result is handed back to the batch function
MaxReruns == 1

----------------------------------------------------------------------------
(* Exact rationals <<num, den>>, den > 0, in lowest terms *)

RECURSIVE GCD(_, _)
GCD(a, b) == IF b = 0 THEN a ELSE GCD(b, a % b)

Abs(n) == IF n < 0 THEN -n ELSE n

Rat(n, d) ==
    LET g == GCD(Abs(n), Abs(d))
        s == IF d < 0 THEN -1 ELSE 1
    IN  <<(s * n) \div g, (s * d) \div g>>

RInt(n) == <<n, 1>>

RMul(a, b) == Rat(a[1] * b[1], a[2] * b[2])

RDiv(a, b) == Rat(a[1] * b[2], a[2] * b[1])

RLess(a, b) == a[1] * b[2] < b[1] * a[2]

RLeq(a, b) == a[1] * b[2] <= b[1] * a[2]

RMin(a, b) == IF RLess(b, a) THEN b ELSE a

\* conversion of a non-negative number to a canvas dimension (unsigned long)
Trunc(a) == a[1] \div a[2]

----------------------------------------------------------------------------
(* binary64 quality values.  A value v in [0, 1) is held as <<hi, lo>> with *)
(* v * 2^56 = hi * 2^28 + lo: every binary64 value in [2^-4, 1) is a whole *)
(* number of 2^-56.                                                        *)

QBase == 2 ^ 28

\* 0.92 = 0x1.d70a3d70a3d71p-1
Q092 == <<246960619, 139586440>>

\* 0.7 = 0x1.6666666666666p-1
Q07 == <<187904819, 53687088>>

\* 0.3 = 0x1.3333333333333p-2
Q03 == <<80530636, 214748364>>

\* 0.1 = 0x1.999999999999ap-4
Q01 == <<26843545, 161061274>>

QGreater(a, b) == a[1] > b[1] \/ (a[1] = b[1] /\ a[2] > b[2])

QLeq(a, b) == ~QGreater(a, b)

\* the spacing of binary64 values at v, in units of 2^-56
QUlp(v) ==
    IF v[1] >= 2 ^ 27 THEN 8
    ELSE IF v[1] >= 2 ^ 26 THEN 4
    ELSE IF v[1] >= 2 ^ 25 THEN 2
    ELSE 1

\* round to nearest binary64, ties to even
QRound(v) ==
    LET u == QUlp(v)
        r == v[2] % u
        down == v[2] - r
        up == (2 * r > u) \/ (2 * r = u /\ (down \div u) % 2 = 1)
        lo == IF up THEN down + u ELSE down
    IN  IF lo = QBase THEN <<v[1] + 1, 0>> ELSE <<v[1], lo>>

\* the binary64 difference a - b, for a >= b
QSub(a, b) ==
    LET borrow == IF a[2] < b[2] THEN 1 ELSE 0
    IN  QRound(<<a[1] - b[1] - borrow, a[2] - b[2] + borrow * QBase>>)

----------------------------------------------------------------------------
(* Inputs *)

File(name, type, width, height) ==
    [name |-> name, type |-> type, width |-> width, height |-> height]

\* the File objects a caller hands in: name, declared type, decoded size
Inputs ==
    { File("photo.jpg", "image/jpeg", 6000, 4000),
      File("noise.png", "image/png", 4000, 4000),
      File("small.gif", "image/gif", 500, 500),
      File("tall.jpg", "image/jpeg", 1000, 2100),
      File("portrait.PNG", "image/png", 4000, 6000),
      File("mid", "image/jpeg", 900, 850),
      File("strip.jpg", "image/jpeg", 3000, 1) }

\* the arrays longer than one file are prefixes of this one
BatchFiles ==
    << File("small.gif", "image/gif", 500, 500),
       File("mid", "image/jpeg", 900, 850),
       File("noise.png", "image/png", 4000, 4000) >>

MaxSizes == {0, DefaultMaxSize}

MaxDimensions == {600, DefaultMaxDimension, 4000}

\* sizes in bytes of the blobs the encoder hands to the toBlob callback
BlobSizes == {1, DefaultMaxSize, DefaultMaxSize + 1}

----------------------------------------------------------------------------
(* State *)

VARIABLES
    files,          \* the array handed to removeExifDataFromFiles
    maxSize,        \* its maxSize argument
    maxDimension,   \* its maxDimension argument
    calls,          \* calls[i]: the removeExifData invocation for files[i]
    batch,          \* the promise removeExifDataFromFiles returns
    settled,        \* the invocations in the order they settled
    run,            \* 0 for the caller's files, n when they are the nth result
    prior,          \* the result the files were taken from (run > 0)
    legacy,         \* an invocation of removeExifData of app/lib/image-utils.ts
    page            \* the post list of a profile or location page

vars == <<files, maxSize, maxDimension, calls, batch, settled, run, prior, legacy, page>>

NoFile == [name |-> "", type |-> "", size |-> 0, width |-> 0, height |-> 0]

NoError == [msg |-> "", call |-> 0]

NoAttempt == [w |-> RInt(0), h |-> RInt(0), q |-> <<0, 0>>, size |-> 0]

\* an invocation before removeExifData is called
IdleCall ==
    [pc |-> "idle",         \* idle, reading, decoding, encoding, resolved, rejected
     w |-> RInt(0),         \* targetWidth of the current compressImage call
     h |-> RInt(0),         \* targetHeight
     q |-> <<0, 0>>,        \* quality
     mime |-> "",           \* the type handed to toBlob
     attempts |-> 0,        \* toBlob calls made so far
     prev |-> NoAttempt,    \* the attempt before the current one, with its blob size
     out |-> NoFile,        \* the File the promise resolved with
     err |-> NoError,       \* the Error the promise rejected with
     failure |-> ""]        \* history: the failure that occurred (read, decode,
                            \* surface, encode), "" while none has

IdleBatch == [state |-> "idle", result |-> <<>>, err |-> NoError]

\* an invocation of the legacy removeExifData on `file`, before it is called
IdleLegacy(file) ==
    [file |-> file,
     pc |-> "idle",         \* idle, reading, decoding, encoding, resolved, rejected
     mime |-> "",           \* the type handed to toBlob
     out |-> NoFile,        \* the File the promise resolved with
     err |-> NoError,       \* the Error the promise rejected with
     failure |-> ""]        \* history: the failure that occurred

\* no legacy invocation
NoLegacy == IdleLegacy(File("", "", 0, 0))

\* the data of useSWR before anything was fetched for its key
Undefined == [kind |-> "undefined", posts |-> <<>>]

\* the page component when it mounts: the state of its useState hooks, the useSWR
\* of the posts, and isHandlingRef
MountedPage ==
    [postsPage |-> 0,
     allPosts |-> <<>>,
     isLoadingMorePosts |-> FALSE,
     hasMorePosts |-> TRUE,
     postsData |-> Undefined,       \* data of the current key
     fetching |-> TRUE,             \* a request for the current key is in flight
     isHandling |-> FALSE,          \* isHandlingRef.current
     server |-> <<>>,               \* the ids of the posts the server holds
     requested |-> <<>>,            \* history: the offsets requested
     fetched |-> <<>>,              \* history: the lengths of the pages fetched
     edits |-> 0]                   \* history: like changes and deletions made

\* no page mounted
NoPage == [MountedPage EXCEPT !.fetching = FALSE]

Indices == DOMAIN files

Init ==
    /\ \/ /\ \E f \in Inputs : files = <<f>>
          /\ maxSize \in MaxSizes
          /\ maxDimension \in MaxDimensions
       \/ /\ \E k \in (0..MaxFiles) \ {1} : files = SubSeq(BatchFiles, 1, k)
          /\ maxSize = DefaultMaxSize
          /\ maxDimension = DefaultMaxDimension
    /\ calls = [i \in DOMAIN files |-> IdleCall]
    /\ batch = IdleBatch
    /\ settled = <<>>
    /\ run = 0
    /\ prior = <<>>
    /\ legacy = NoLegacy
    /\ page = NoPage

----------------------------------------------------------------------------
(* removeExifData *)

\* variant: the type chosen from the input's declared type
MimeTypeOfInput(file) ==
    IF file.type = "image/png" THEN "image/png" ELSE "image/jpeg"

\* the constant mimeType of the resize/compress variant
MimeType(file) == "image/jpeg"

\* new Error(msg), created by invocation i
Error(msg, i) == [msg |-> msg, call |-> i]

Reject(c, e) == [c EXCEPT !.pc = "rejected", !.err = e]

\* the messages of the four failures
ReadErrorMessage == "Failed to read file"

\* variant: the message of the read failure copied to the decode failure
DecodeErrorMessageCopied == "Failed to read file"

DecodeErrorMessage == "Failed to load image"

SurfaceErrorMessage == "Canvas context not available"

EncodeErrorMessage == "Failed to create blob"

\* failure `kind` occurs in invocation i, which rejects with new Error(msg)
Fail(c, i, kind, msg) == [Reject(c, Error(msg, i)) EXCEPT !.failure = kind]

\* variant: the source dimensions used whatever maxDimension is
InitialDimensionsUnscaled(width, height, maxDim) ==
    <<RInt(width), RInt(height)>>

\* variant: the orientation test inverted
InitialDimensionsSwapped(width, height, maxDim) ==
    IF width > maxDim \/ height > maxDim
    THEN LET aspectRatio == Rat(width, height)
         IN  IF width < height
             THEN <<RInt(maxDim), RDiv(RInt(maxDim), aspectRatio)>>
             ELSE <<RMul(RInt(maxDim), aspectRatio), RInt(maxDim)>>
    ELSE <<RInt(width), RInt(height)>>

\* width and height of the first compressImage call
InitialDimensions(width, height, maxDim) ==
    IF width > maxDim \/ height > maxDim
    THEN LET aspectRatio == Rat(width, height)
         IN  IF width > height
             THEN <<RInt(maxDim), RDiv(RInt(maxDim), aspectRatio)>>
             ELSE <<RMul(RInt(maxDim), aspectRatio), RInt(maxDim)>>
    ELSE <<RInt(width), RInt(height)>>

\* variant: the widths capped at 1000 in place of 800
ShrinkDimensionsWideCap(targetWidth, targetHeight) ==
    LET aspectRatio == RDiv(targetWidth, targetHeight)
        newWidth == RMin(RMul(targetWidth, Rat(8, 10)), RInt(1000))
        newHeight == RDiv(newWidth, aspectRatio)
    IN  IF RLess(RInt(FloorDimension), newHeight)
        THEN <<RMul(RInt(FloorDimension), aspectRatio), RInt(FloorDimension)>>
        ELSE <<newWidth, newHeight>>

\* variant: a 20% step without Math.min(..., 800)
ShrinkDimensionsNoFloor(targetWidth, targetHeight) ==
    LET aspectRatio == RDiv(targetWidth, targetHeight)
        newWidth == RMul(targetWidth, Rat(8, 10))
    IN  <<newWidth, RDiv(newWidth, aspectRatio)>>

\* variant: the height clamp leaves newWidth as it was
ShrinkDimensionsNoRescale(targetWidth, targetHeight) ==
    LET aspectRatio == RDiv(targetWidth, targetHeight)
        newWidth == RMin(RMul(targetWidth, Rat(8, 10)), RInt(FloorDimension))
        newHeight == RDiv(newWidth, aspectRatio)
    IN  IF RLess(RInt(FloorDimension), newHeight)
        THEN <<newWidth, RInt(FloorDimension)>>
        ELSE <<newWidth, newHeight>>

\* newWidth and newHeight of the dimension-reducing branch
ShrinkDimensions(targetWidth, targetHeight) ==
    LET aspectRatio == RDiv(targetWidth, targetHeight)
        newWidth == RMin(RMul(targetWidth, Rat(8, 10)), RInt(FloorDimension))
        newHeight == RDiv(newWidth, aspectRatio)
    IN  IF RLess(RInt(FloorDimension), newHeight)
        THEN <<RMul(RInt(FloorDimension), aspectRatio), RInt(FloorDimension)>>
        ELSE <<newWidth, newHeight>>

\* variant: the file named after the output type
NewFileRenamed(c, file, size) ==
    [name |-> "image.jpg", type |-> MimeType(file), size |-> size,
     width |-> Trunc(c.w), height |-> Trunc(c.h)]

\* new File([blob], fileName, {type: mimeType}); the blob holds the canvas bitmap
NewFile(c, file, size) ==
    [name |-> file.name, type |-> MimeType(file), size |-> size,
     width |-> Trunc(c.w), height |-> Trunc(c.h)]

\* variant: < in place of <=
WithinBudgetStrict(size, limit) == size < limit

\* blob.size <= maxSize
WithinBudget(size, limit) == size <= limit

\* quality > 0.3
QualityAboveFloor(quality) == QGreater(quality, Q03)

\* variant: && in place of ||
AboveFloorDimensionBoth(targetWidth, targetHeight) ==
    /\ RLess(RInt(FloorDimension), targetWidth)
    /\ RLess(RInt(FloorDimension), targetHeight)

\* targetWidth > 800 || targetHeight > 800
AboveFloorDimension(targetWidth, targetHeight) ==
    \/ RLess(RInt(FloorDimension), targetWidth)
    \/ RLess(RInt(FloorDimension), targetHeight)

\* variant: a step of 0.2
LowerQualityTwice(quality) == QSub(QSub(quality, Q01), Q01)

\* quality - 0.1
LowerQuality(quality) == QSub(quality, Q01)

\* variant: quality kept in one variable shared by the invocations, so that an
\* invocation encodes at the lowest quality any pending invocation has reached
CompressImageSharedQuality(c, i, targetWidth, targetHeight, quality, last, ctx) ==
    LET others == { j \in DOMAIN calls : j # i /\ calls[j].pc = "encoding" }
        lower == { j \in others : QGreater(quality, calls[j].q) }
        shared == IF lower = {} THEN quality
                  ELSE calls[CHOOSE j \in lower :
                                 \A k \in lower : ~QGreater(calls[j].q, calls[k].q)].q
    IN  IF ~ctx
        THEN Fail(c, i, "surface", SurfaceErrorMessage)
        ELSE [c EXCEPT !.pc = "encoding", !.w = targetWidth, !.h = targetHeight,
                       !.q = shared, !.mime = MimeType(files[i]),
                       !.attempts = @ + 1, !.prev = last]

\* compressImage(targetWidth, targetHeight, quality) up to its toBlob call;
\* `last` is the attempt that led here
CompressImage(c, i, targetWidth, targetHeight, quality, last, ctx) ==
    IF ~ctx
    THEN Fail(c, i, "surface", SurfaceErrorMessage)
    ELSE [c EXCEPT !.pc = "encoding", !.w = targetWidth, !.h = targetHeight,
                   !.q = quality, !.mime = MimeType(files[i]),
                   !.attempts = @ + 1, !.prev = last]

\* variant: the quality left as it is after a shrink
ToBlobCallbackKeepQuality(c, i, blob, ctx) ==
    LET this == [w |-> c.w, h |-> c.h, q |-> c.q, size |-> blob]
    IN  IF blob = 0
        THEN Fail(c, i, "encode", EncodeErrorMessage)
        ELSE IF WithinBudget(blob, maxSize)
        THEN [c EXCEPT !.pc = "resolved", !.out = NewFile(c, files[i], blob)]
        ELSE IF QualityAboveFloor(c.q)
        THEN CompressImage(c, i, c.w, c.h, LowerQuality(c.q), this, ctx)
        ELSE IF AboveFloorDimension(c.w, c.h)
        THEN LET d == ShrinkDimensions(c.w, c.h)
             IN  CompressImage(c, i, d[1], d[2], c.q, this, ctx)
        ELSE [c EXCEPT !.pc = "resolved", !.out = NewFile(c, files[i], blob)]

\* variant: the quality test made before the size test
ToBlobCallbackQualityFirst(c, i, blob, ctx) ==
    LET this == [w |-> c.w, h |-> c.h, q |-> c.q, size |-> blob]
    IN  IF blob = 0
        THEN Fail(c, i, "encode", EncodeErrorMessage)
        ELSE IF QualityAboveFloor(c.q)
        THEN CompressImage(c, i, c.w, c.h, LowerQuality(c.q), this, ctx)
        ELSE IF WithinBudget(blob, maxSize)
        THEN [c EXCEPT !.pc = "resolved", !.out = NewFile(c, files[i], blob)]
        ELSE IF AboveFloorDimension(c.w, c.h)
        THEN LET d == ShrinkDimensions(c.w, c.h)
             IN  CompressImage(c, i, d[1], d[2], Q07, this, ctx)
        ELSE [c EXCEPT !.pc = "resolved", !.out = NewFile(c, files[i], blob)]

\* variant: when toBlob fails after an earlier attempt, that attempt's blob is returned
ToBlobCallbackFallback(c, i, blob, ctx) ==
    LET this == [w |-> c.w, h |-> c.h, q |-> c.q, size |-> blob]
    IN  IF blob = 0
        THEN IF c.attempts >= 2
             THEN [c EXCEPT !.pc = "resolved", !.failure = "encode",
                            !.out = NewFile(c, files[i], c.prev.size)]
             ELSE Fail(c, i, "encode", EncodeErrorMessage)
        ELSE IF WithinBudget(blob, maxSize)
        THEN [c EXCEPT !.pc = "resolved", !.out = NewFile(c, files[i], blob)]
        ELSE IF QualityAboveFloor(c.q)
        THEN CompressImage(c, i, c.w, c.h, LowerQuality(c.q), this, ctx)
        ELSE IF AboveFloorDimension(c.w, c.h)
        THEN LET d == ShrinkDimensions(c.w, c.h)
             IN  CompressImage(c, i, d[1], d[2], Q07, this, ctx)
        ELSE [c EXCEPT !.pc = "resolved", !.out = NewFile(c, files[i], blob)]

\* the callback handed to toBlob; blob = 0 stands for null
ToBlobCallback(c, i, blob, ctx) ==
    LET this == [w |-> c.w, h |-> c.h, q |-> c.q, size |-> blob]
    IN  IF blob = 0
        THEN Fail(c, i, "encode", EncodeErrorMessage)
        ELSE IF WithinBudget(blob, maxSize)
        THEN [c EXCEPT !.pc = "resolved", !.out = NewFile(c, files[i], blob)]
        ELSE IF QualityAboveFloor(c.q)
        THEN CompressImage(c, i, c.w, c.h, LowerQuality(c.q), this, ctx)
        ELSE IF AboveFloorDimension(c.w, c.h)
        THEN LET d == ShrinkDimensions(c.w, c.h)
             IN  CompressImage(c, i, d[1], d[2], Q07, this, ctx)
        ELSE [c EXCEPT !.pc = "resolved", !.out = NewFile(c, files[i], blob)]

----------------------------------------------------------------------------
(* removeExifDataFromFiles *)

IsSettled(c) == c.pc \in {"resolved", "rejected"}

\* variant: the results collected in the order the invocations settle
PromiseAllCompletionOrder(b, cs, i) ==
    LET order == Append(settled, i)
    IN  IF b.state # "pending" THEN b
        ELSE IF cs[i].pc = "rejected"
        THEN [b EXCEPT !.state = "rejected", !.err = cs[i].err]
        ELSE IF \A j \in DOMAIN cs : cs[j].pc = "resolved"
        THEN [b EXCEPT !.state = "resolved",
                       !.result = [j \in DOMAIN cs |-> cs[order[j]].out]]
        ELSE b

\* variant: Promise.allSettled, keeping the files of the invocations that resolved
PromiseAllSettled(b, cs, i) ==
    IF b.state # "pending" THEN b
    ELSE IF \A j \in DOMAIN cs : IsSettled(cs[j])
    THEN [b EXCEPT !.state = "resolved", !.result = [j \in DOMAIN cs |-> cs[j].out]]
    ELSE b

\* variant: the invocations awaited one after the other, in index order
PromiseAllInIndexOrder(b, cs, i) ==
    LET open == { j \in DOMAIN cs : cs[j].pc # "resolved" }
        next == CHOOSE j \in open : \A k \in open : j <= k
    IN  IF b.state # "pending" THEN b
        ELSE IF open = {}
        THEN [b EXCEPT !.state = "resolved", !.result = [j \in DOMAIN cs |-> cs[j].out]]
        ELSE IF cs[next].pc = "rejected"
        THEN [b EXCEPT !.state = "rejected", !.err = cs[next].err]
        ELSE b

\* Promise.all over the invocations, after invocation i took a step to cs
PromiseAll(b, cs, i) ==
    IF b.state # "pending" THEN b
    ELSE IF cs[i].pc = "rejected"
    THEN [b EXCEPT !.state = "rejected", !.err = cs[i].err]
    ELSE IF \A j \in DOMAIN cs : cs[j].pc = "resolved"
    THEN [b EXCEPT !.state = "resolved", !.result = [j \in DOMAIN cs |-> cs[j].out]]
    ELSE b

\* invocation i becomes c: the promise chain up to the batch promise runs in
\* the same task
Step(i, c) ==
    /\ calls' = [calls EXCEPT ![i] = c]
    /\ batch' = PromiseAll(batch, calls', i)
    /\ settled' = IF IsSettled(c) THEN Append(settled, i) ELSE settled
    /\ UNCHANGED <<files, maxSize, maxDimension, run, prior, legacy, page>>

\* files.map(removeExifData) starts every reader; Promise.all([]) resolves
RemoveExifDataFromFiles ==
    /\ batch.state = "idle"
    /\ calls' = [i \in Indices |-> [calls[i] EXCEPT !.pc = "reading"]]
    /\ batch' = IF files = <<>>
                THEN [batch EXCEPT !.state = "resolved"]
                ELSE [batch EXCEPT !.state = "pending"]
    /\ UNCHANGED <<files, maxSize, maxDimension, settled, run, prior, legacy, page>>

\* variant: an empty result neither starts the image nor rejects
ReaderOnloadEmptyIgnored(i) ==
    /\ calls[i].pc = "reading"
    /\ \E result \in BOOLEAN :
         Step(i, IF result
                 THEN [calls[i] EXCEPT !.pc = "decoding"]
                 ELSE [calls[i] EXCEPT !.pc = "waiting"])

\* reader.onload: e.target.result is the data URL, or is empty
ReaderOnload(i) ==
    /\ calls[i].pc = "reading"
    /\ \E result \in BOOLEAN :
         Step(i, IF result
                 THEN [calls[i] EXCEPT !.pc = "decoding"]
                 ELSE Fail(calls[i], i, "read", ReadErrorMessage))

ReaderOnerror(i) ==
    /\ calls[i].pc = "reading"
    /\ Step(i, Fail(calls[i], i, "read", ReadErrorMessage))

\* variant: the search started at the quality used after a shrink
ImgOnloadAtShrinkQuality(i) ==
    /\ calls[i].pc = "decoding"
    /\ \E ctx \in BOOLEAN :
         LET d == InitialDimensions(files[i].width, files[i].height, maxDimension)
         IN  Step(i, CompressImage(calls[i], i, d[1], d[2], Q07, NoAttempt, ctx))

\* img.onload: the initial dimensions and the first compressImage call
ImgOnload(i) ==
    /\ calls[i].pc = "decoding"
    /\ \E ctx \in BOOLEAN :
         LET d == InitialDimensions(files[i].width, files[i].height, maxDimension)
         IN  Step(i, CompressImage(calls[i], i, d[1], d[2], Q092, NoAttempt, ctx))

\* variant: the input file handed back when it cannot be decoded
ImgOnerrorFallback(i) ==
    /\ calls[i].pc = "decoding"
    /\ Step(i, [calls[i] EXCEPT !.pc = "resolved", !.failure = "decode",
                                !.out = [name |-> files[i].name, type |-> files[i].type,
                                         size |-> 1, width |-> files[i].width,
                                         height |-> files[i].height]])

\* img.onerror
ImgOnerror(i) ==
    /\ calls[i].pc = "decoding"
    /\ Step(i, Fail(calls[i], i, "decode", DecodeErrorMessage))

\* what toBlob may hand to its callback: null (0), or a blob; a canvas whose
\* bitmap has no pixels (tempCanvas.width or .height converts to 0) gives null
Blobs(c) ==
    IF Trunc(c.w) = 0 \/ Trunc(c.h) = 0 THEN {0} ELSE {0} \cup BlobSizes

\* the toBlob callback fires
ToBlob(i) ==
    /\ calls[i].pc = "encoding"
    /\ \E blob \in Blobs(calls[i]), ctx \in BOOLEAN :
         Step(i, ToBlobCallback(calls[i], i, blob, ctx))

\* the caller hands a resolved result back: removeExifDataFromFiles(result)
Resanitize ==
    /\ batch.state = "resolved"
    /\ Len(files) = 1
    /\ run < MaxReruns
    /\ files' = [i \in Indices |->
                   File(batch.result[i].name, batch.result[i].type,
                        batch.result[i].width, batch.result[i].height)]
    /\ prior' = batch.result
    /\ run' = run + 1
    /\ calls' = [i \in Indices |-> [IdleCall EXCEPT !.pc = "reading"]]
    /\ batch' = [IdleBatch EXCEPT !.state = "pending"]
    /\ settled' = <<>>
    /\ UNCHANGED <<maxSize, maxDimension, legacy, page>>

Next ==
    \/ RemoveExifDataFromFiles
    \/ Resanitize
    \/ \E i \in Indices : ReaderOnload(i)
    \/ \E i \in Indices : ReaderOnerror(i)
    \/ \E i \in Indices : ImgOnload(i)
    \/ \E i \in Indices : ImgOnerror(i)
    \/ \E i \in Indices : ToBlob(i)

Spec == Init /\ [][Next]_vars

----------------------------------------------------------------------------
(* removeExifData of app/lib/image-utils.ts (the legacy variant) *)

\* the characters of the strings of the model
Chars(str) ==
    CASE str = "photo.jpg" -> <<"p", "h", "o", "t", "o", ".", "j", "p", "g">>
      [] str = "noise.png" -> <<"n", "o", "i", "s", "e", ".", "p", "n", "g">>
      [] str = "portrait.PNG" ->
             <<"p", "o", "r", "t", "r", "a", "i", "t", ".", "P", "N", "G">>
      [] str = "small.gif" -> <<"s", "m", "a", "l", "l", ".", "g", "i", "f">>
      [] str = "shot.png.jpg" ->
             <<"s", "h", "o", "t", ".", "p", "n", "g", ".", "j", "p", "g">>
      [] str = "mid" -> <<"m", "i", "d">>
      [] str = "scan." -> <<"s", "c", "a", "n", ".">>
      [] str = "png" -> <<"p", "n", "g">>
      [] str = "GIF" -> <<"G", "I", "F">>
      [] str = "image/png" -> <<"i", "m", "a", "g", "e", "/", "p", "n", "g">>
      [] str = "image/jpeg" -> <<"i", "m", "a", "g", "e", "/", "j", "p", "e", "g">>
      [] str = "image/gif" -> <<"i", "m", "a", "g", "e", "/", "g", "i", "f">>
      [] str = "" -> <<>>

UpperCase ==
    <<"A", "B", "C", "D", "E", "F", "G", "H", "I", "J", "K", "L", "M",
      "N", "O", "P", "Q", "R", "S", "T", "U", "V", "W", "X", "Y", "Z">>

LowerCase ==
    <<"a", "b", "c", "d", "e", "f", "g", "h", "i", "j", "k", "l", "m",
      "n", "o", "p", "q", "r", "s", "t", "u", "v", "w", "x", "y", "z">>

\* String.prototype.toLowerCase
ToLowerCase(cs) ==
    [k \in DOMAIN cs |->
        IF \E n \in DOMAIN UpperCase : UpperCase[n] = cs[k]
        THEN LowerCase[CHOOSE n \in DOMAIN UpperCase : UpperCase[n] = cs[k]]
        ELSE cs[k]]

\* str.split(".").pop(): the characters after the last ".", all of them if there is none
SplitPop(cs) ==
    LET dots == { k \in DOMAIN cs : cs[k] = "." }
        last == IF dots = {} THEN 0 ELSE CHOOSE k \in dots : \A n \in dots : n <= k
    IN  SubSeq(cs, last + 1, Len(cs))

\* String.prototype.startsWith
StartsWith(cs, prefix) ==
    Len(prefix) <= Len(cs) /\ SubSeq(cs, 1, Len(prefix)) = prefix

\* fileName.split(".").pop()?.toLowerCase() || "jpg"
FileExtension(name) ==
    LET e == ToLowerCase(SplitPop(Chars(name)))
    IN  IF e = <<>> THEN <<"j", "p", "g">> ELSE e

\* the type of the File the legacy variant returns
LegacyMimeType(name) ==
    IF FileExtension(name) = <<"p", "n", "g">> THEN "image/png"
    ELSE IF FileExtension(name) = <<"g", "i", "f">> THEN "image/gif"
    ELSE "image/jpeg"

\* the type the legacy variant hands to toBlob
LegacyBlobType(file) ==
    IF StartsWith(Chars(file.type), Chars("image/png")) THEN "image/png" ELSE "image/jpeg"

LegacyNames ==
    {"photo.jpg", "noise.png", "portrait.PNG", "small.gif", "shot.png.jpg",
     "mid", "scan.", "png", "GIF"}

LegacyTypes == {"image/png", "image/jpeg", "image/gif"}

InitLegacy ==
    /\ files = <<>>
    /\ maxSize = DefaultMaxSize
    /\ maxDimension = DefaultMaxDimension
    /\ calls = <<>>
    /\ batch = IdleBatch
    /\ settled = <<>>
    /\ run = 0
    /\ prior = <<>>
    /\ \E name \in LegacyNames, type \in LegacyTypes :
          legacy = IdleLegacy(File(name, type, 500, 500))
    /\ page = NoPage

LegacyStep(c) ==
    /\ legacy' = c
    /\ UNCHANGED <<files, maxSize, maxDimension, calls, batch, settled, run, prior, page>>

LegacyFail(kind, msg) ==
    LegacyStep([legacy EXCEPT !.pc = "rejected", !.err = Error(msg, 1),
                              !.failure = kind])

\* removeExifData(file): reader.readAsDataURL(file)
LegacyRemoveExifData ==
    /\ legacy.pc = "idle"
    /\ LegacyStep([legacy EXCEPT !.pc = "reading"])

\* reader.onload with a data URL
LegacyReaderOnload ==
    /\ legacy.pc = "reading"
    /\ LegacyStep([legacy EXCEPT !.pc = "decoding"])

\* reader.onload with an empty result
LegacyReaderOnloadEmpty ==
    /\ legacy.pc = "reading"
    /\ LegacyFail("read", ReadErrorMessage)

LegacyReaderOnerror ==
    /\ legacy.pc = "reading"
    /\ LegacyFail("read", ReadErrorMessage)

\* img.onload: the canvas has a 2d context and toBlob is called
LegacyImgOnload ==
    /\ legacy.pc = "decoding"
    /\ LegacyStep([legacy EXCEPT !.pc = "encoding",
                                 !.mime = LegacyBlobType(legacy.file)])

\* img.onload: getContext("2d") returns null
LegacyImgOnloadNoContext ==
    /\ legacy.pc = "decoding"
    /\ LegacyFail("surface", SurfaceErrorMessage)

LegacyImgOnerror ==
    /\ legacy.pc = "decoding"
    /\ LegacyFail("decode", DecodeErrorMessage)

\* the toBlob callback fires with a blob
LegacyToBlob ==
    /\ legacy.pc = "encoding"
    /\ \E blob \in BlobSizes :
          LegacyStep([legacy EXCEPT
              !.pc = "resolved",
              !.out = [name |-> legacy.file.name,
                       type |-> LegacyMimeType(legacy.file.name),
                       size |-> blob,
                       width |-> legacy.file.width,
                       height |-> legacy.file.height]])

\* the toBlob callback fires with null
LegacyToBlobNull ==
    /\ legacy.pc = "encoding"
    /\ LegacyFail("encode", EncodeErrorMessage)

NextLegacy ==
    \/ LegacyRemoveExifData
    \/ LegacyReaderOnload
    \/ LegacyReaderOnloadEmpty
    \/ LegacyReaderOnerror
    \/ LegacyImgOnload
    \/ LegacyImgOnloadNoContext
    \/ LegacyImgOnerror
    \/ LegacyToBlob
    \/ LegacyToBlobNull

SpecLegacy == InitLegacy /\ [][NextLegacy]_vars

----------------------------------------------------------------------------
(* the post list of users/[accountId]/page.tsx and locations/[location]/page.tsx *)

\* the page size (50 and 20 in the two pages), scaled down
POSTS_PER_PAGE == 2

\* the posts the server holds when the page mounts, at most
MaxPosts == 5

\* like changes and deletions made on one page, at most
MaxEdits == 2

Post(id) == [id |-> id, isLiked |-> FALSE]

Null == [kind |-> "null", posts |-> <<>>]

Posts(posts) == [kind |-> "posts", posts |-> posts]

\* variant: the page number used as the offset
OffsetUnscaled(postsPage) == postsPage

\* offset=${postsPage * POSTS_PER_PAGE} of the useSWR key
Offset(postsPage) == postsPage * POSTS_PER_PAGE

\* what the server answers to limit=POSTS_PER_PAGE&offset=...
ServerPage(server, offset) ==
    LET rest == IF offset >= Len(server) THEN 0 ELSE Len(server) - offset
        n == IF rest < POSTS_PER_PAGE THEN rest ELSE POSTS_PER_PAGE
    IN  [k \in 1..n |-> Post(server[offset + k])]

\* isLoading of useSWR: no data yet and a request in flight
PostsLoading(p) == p.fetching /\ p.postsData.kind = "undefined"

\* the effect on [postsData, postsPage, postsLoading]
PostsEffect(p) ==
    IF p.postsData.kind = "posts"
    THEN [p EXCEPT !.allPosts = IF p.postsPage = 0
                                THEN p.postsData.posts
                                ELSE @ \o p.postsData.posts,
                   !.hasMorePosts = (Len(p.postsData.posts) = POSTS_PER_PAGE),
                   !.isLoadingMorePosts = FALSE]
    ELSE IF p.postsData.kind = "null" /\ ~PostsLoading(p) /\ p.postsPage > 0
    THEN [p EXCEPT !.hasMorePosts = FALSE, !.isLoadingMorePosts = FALSE]
    ELSE p

\* useSWR hands out new data (it keeps the old object when the new one compares
\* equal), the component renders and the effect runs
SetData(p, data) ==
    IF data = p.postsData THEN p ELSE PostsEffect([p EXCEPT !.postsData = data])

\* loadMorePosts, with the request useSWR starts for the new key
LoadMorePosts(p) ==
    IF p.isLoadingMorePosts \/ ~p.hasMorePosts \/ PostsLoading(p)
    THEN p
    ELSE PostsEffect([p EXCEPT !.isLoadingMorePosts = TRUE,
                              !.postsPage = @ + 1,
                              !.postsData = Undefined,
                              !.fetching = TRUE,
                              !.requested = Append(@, Offset(p.postsPage + 1))])

\* the effect that sets the IntersectionObserver up has observed the target
ObserverSet(p) ==
    ~(Len(p.allPosts) = 0 \/ p.isLoadingMorePosts \/ PostsLoading(p) \/ ~p.hasMorePosts)

InitPages ==
    /\ files = <<>>
    /\ maxSize = DefaultMaxSize
    /\ maxDimension = DefaultMaxDimension
    /\ calls = <<>>
    /\ batch = IdleBatch
    /\ settled = <<>>
    /\ run = 0
    /\ prior = <<>>
    /\ legacy = NoLegacy
    /\ \E n \in 0..MaxPosts :
          page = [MountedPage EXCEPT !.server = [k \in 1..n |-> k],
                                     !.requested = <<Offset(0)>>]

PageStep(p) ==
    /\ page' = p
    /\ UNCHANGED <<files, maxSize, maxDimension, calls, batch, settled, run, prior,
                   legacy>>

\* the fetcher resolves with the posts of the requested page
FetcherReturnsPosts ==
    /\ page.fetching
    /\ LET posts == ServerPage(page.server, Offset(page.postsPage))
       IN  PageStep(SetData([page EXCEPT !.fetching = FALSE,
                                         !.fetched = Append(@, Len(posts))],
                            Posts(posts)))

\* the fetcher resolves with null after a network error
FetcherReturnsNull ==
    /\ page.fetching
    /\ PageStep(SetData([page EXCEPT !.fetching = FALSE], Null))

\* the fetcher throws "Failed to fetch data": data stays undefined
FetcherThrows ==
    /\ page.fetching
    /\ PageStep(PostsEffect([page EXCEPT !.fetching = FALSE]))

\* the IntersectionObserver callback with an intersecting entry
Intersect ==
    /\ ObserverSet(page)
    /\ ~page.isHandling
    /\ PageStep(LoadMorePosts([page EXCEPT !.isHandling = TRUE]))

\* the setTimeout of the observer callback fires
HandlingTimeout ==
    /\ page.isHandling
    /\ PageStep([page EXCEPT !.isHandling = FALSE])

Shown(p) == { p.allPosts[k].id : k \in DOMAIN p.allPosts }

LikePost(posts, postId, isLiked) ==
    [k \in DOMAIN posts |->
        IF posts[k].id = postId THEN [posts[k] EXCEPT !.isLiked = isLiked]
        ELSE posts[k]]

DeletePost(posts, postId) ==
    LET Keep(post) == post.id # postId IN SelectSeq(posts, Keep)

\* mutatePosts(update, false): the cached data of the current key is replaced
MutatePosts(p, data) ==
    IF p.postsData.kind = "posts" THEN SetData(p, Posts(data)) ELSE p

HandleLikeChange ==
    /\ page.edits < MaxEdits
    /\ \E postId \in Shown(page), isLiked \in BOOLEAN :
         PageStep(MutatePosts([page EXCEPT
                                  !.allPosts = LikePost(@, postId, isLiked),
                                  !.edits = @ + 1],
                              LikePost(page.postsData.posts, postId, isLiked)))

\* a shown post was deleted on the server and its card calls onDelete
HandlePostDelete ==
    /\ page.edits < MaxEdits
    /\ \E postId \in Shown(page) :
         LET Others(id) == id # postId
         IN  PageStep(MutatePosts([page EXCEPT
                                      !.allPosts = DeletePost(@, postId),
                                      !.server = SelectSeq(@, Others),
                                      !.edits = @ + 1],
                                  DeletePost(page.postsData.posts, postId)))

NextPages ==
    \/ FetcherReturnsPosts
    \/ FetcherReturnsNull
    \/ FetcherThrows
    \/ Intersect
    \/ HandlingTimeout
    \/ HandleLikeChange
    \/ HandlePostDelete

SpecPages == InitPages /\ [][NextPages]_vars

----------------------------------------------------------------------------
(* Properties *)

Resolved(i) == calls[i].pc = "resolved"

Rejected(i) == calls[i].pc = "rejected"

\* invocation i has made at least one compressImage call that reached toBlob
Attempted(i) == calls[i].attempts >= 1

\* C1: a file resolved with more than maxSize bytes was accepted at the search
\* floor: width <= 800, height <= 800 and quality <= 0.3 (so every file resolved
\* away from the floor has at most maxSize bytes).
BudgetOrFloor ==
    \A i \in Indices :
        Resolved(i) /\ calls[i].out.size > maxSize =>
            /\ RLeq(calls[i].w, RInt(FloorDimension))
            /\ RLeq(calls[i].h, RInt(FloorDimension))
            /\ QLeq(calls[i].q, Q03)

\* C1 witness: a file over budget is returned, from a source larger than the floor
OverBudgetAccepted ==
    \E i \in Indices :
        /\ Resolved(i)
        /\ calls[i].out.size > maxSize
        /\ maxSize = DefaultMaxSize
        /\ files[i].width > FloorDimension

\* C2: every attempt has width <= maxDimension and height <= maxDimension, and
\* neither is larger than in the attempt before it.
DimensionsBounded ==
    \A i \in Indices :
        Attempted(i) =>
            /\ RLeq(calls[i].w, RInt(maxDimension))
            /\ RLeq(calls[i].h, RInt(maxDimension))
            /\ calls[i].attempts >= 2 =>
                 /\ RLeq(calls[i].w, calls[i].prev.w)
                 /\ RLeq(calls[i].h, calls[i].prev.h)

\* C2 witness: a source larger than maxDimension, scaled first and shrunk later
ScaledThenShrunk ==
    \E i \in Indices :
        /\ calls[i].pc = "encoding"
        /\ calls[i].attempts >= 2
        /\ files[i].width > maxDimension
        /\ RLess(calls[i].w, calls[i].prev.w)
        /\ RLess(calls[i].h, calls[i].prev.h)

\* the width:height ratio of the decoded source of invocation i
SourceRatio(i) == Rat(files[i].width, files[i].height)

\* C3: the targetWidth:targetHeight ratio of every attempt is that of the decoded
\* source (exactly so in the reals; the code's binary64 values agree within rounding).
AspectRatioPreserved ==
    \A i \in Indices :
        Attempted(i) =>
            /\ RDiv(calls[i].w, calls[i].h) = SourceRatio(i)
            /\ calls[i].attempts >= 2 =>
                 RDiv(calls[i].prev.w, calls[i].prev.h) = SourceRatio(i)

\* C3 witness: an attempt that follows the shrink branch which clamps the height to 800,
\* the source having been scaled to maxDimension first
HeightClampTaken ==
    \E i \in Indices :
        /\ calls[i].pc = "encoding"
        /\ calls[i].attempts >= 2
        /\ files[i].height > maxDimension
        /\ calls[i].h = RInt(FloorDimension)
        /\ RLess(RInt(FloorDimension), RDiv(RMin(RMul(calls[i].prev.w, Rat(8, 10)),
                                                 RInt(FloorDimension)),
                                            RDiv(calls[i].prev.w, calls[i].prev.h)))

\* the longest search: 0.92 down to 0.22 at the initial dimensions (8 attempts),
\* then 0.7 down to 0.2 after the one shrink (6 attempts)
SearchBound == 8 + 6

\* C4: the search ends: no invocation makes more than SearchBound attempts, and the
\* callback of an attempt numbered SearchBound settles the invocation whatever the
\* encoder and the canvas do.
SearchTerminates ==
    \A i \in Indices :
        /\ calls[i].attempts <= SearchBound
        /\ calls[i].pc = "encoding" /\ calls[i].attempts = SearchBound =>
             \A blob \in Blobs(calls[i]), ctx \in BOOLEAN :
                 IsSettled(ToBlobCallback(calls[i], i, blob, ctx))

\* C4 witness: with maxSize = 0 the search runs to its last attempt and resolves
SearchExhausted ==
    \E i \in Indices :
        /\ maxSize = 0
        /\ Resolved(i)
        /\ calls[i].attempts = SearchBound

\* C5: a resolved file carries the name of the input file.
NamePreserved ==
    \A i \in Indices : Resolved(i) => calls[i].out.name = files[i].name

\* C5 witness: one file accepted under budget and another accepted at the floor
BothAcceptPaths ==
    \E i, j \in Indices :
        /\ Resolved(i) /\ calls[i].out.size <= maxSize
        /\ Resolved(j) /\ calls[j].out.size > maxSize
        /\ files[i].name # files[j].name

\* C6: every toBlob call asks for image/jpeg and every resolved file is typed
\* image/jpeg, whatever the type of the input.
AlwaysJpeg ==
    \A i \in Indices :
        /\ Attempted(i) => calls[i].mime = "image/jpeg"
        /\ Resolved(i) => calls[i].out.type = "image/jpeg"

\* C6 witness: a PNG input, named .png, resolved at the search floor
PngResolved ==
    \E i \in Indices :
        /\ files[i].type = "image/png"
        /\ files[i].name = "noise.png"
        /\ Resolved(i)
        /\ calls[i].out.size > maxSize

\* files[i] is a file an earlier call returned under budget, and it is within the
\* dimension bound
Sanitized(i) ==
    /\ run >= 1
    /\ prior[i].size <= maxSize
    /\ files[i].width <= maxDimension
    /\ files[i].height <= maxDimension

\* C7 as stated: sanitizing an already sanitized file takes one attempt only.
ResanitizeTakesOneAttempt ==
    \A i \in Indices : Sanitized(i) => calls[i].attempts <= 1

\* C7, amended: sanitizing an already sanitized file makes its first attempt at
\* quality 0.92 and at the file's own dimensions, resolves on that attempt only with
\* a blob of at most maxSize bytes, and makes a second attempt only after a first
\* blob of more than maxSize bytes.
ResanitizeFirstAttempt ==
    \A i \in Indices :
        Sanitized(i) =>
            /\ calls[i].attempts = 1 =>
                 /\ calls[i].w = RInt(files[i].width)
                 /\ calls[i].h = RInt(files[i].height)
                 /\ calls[i].q = Q092
            /\ calls[i].attempts = 1 /\ Resolved(i) =>
                 /\ calls[i].out.size <= maxSize
                 /\ calls[i].out.width = files[i].width
                 /\ calls[i].out.height = files[i].height
            /\ calls[i].attempts = 2 =>
                 /\ calls[i].prev.w = RInt(files[i].width)
                 /\ calls[i].prev.h = RInt(files[i].height)
                 /\ calls[i].prev.q = Q092
                 /\ calls[i].prev.size > maxSize

\* C7 witness: an already sanitized file, scaled down by the earlier call, resolved
\* on the first attempt
ResanitizedAtOnce ==
    \E i \in Indices :
        /\ Sanitized(i)
        /\ Resolved(i)
        /\ calls[i].attempts = 1
        /\ files[i].width = maxDimension

\* C8: the resolved array has the length of the input and holds at index i the file
\* of the invocation on files[i].
ResultInInputOrder ==
    batch.state = "resolved" =>
        /\ Len(batch.result) = Len(files)
        /\ \A i \in Indices :
             /\ batch.result[i] = calls[i].out
             /\ batch.result[i].name = files[i].name

\* C8 witness: two files resolved, the second before the first
ResolvedOutOfOrder ==
    /\ batch.state = "resolved"
    /\ Len(files) = 2
    /\ settled = <<2, 1>>

\* C9: the batch resolves exactly when every invocation has resolved, and once an
\* invocation has rejected the batch is rejected and holds no array.
AllOrNothing ==
    batch.state # "idle" =>
        /\ batch.state = "resolved" <=> \A i \in Indices : Resolved(i)
        /\ (\E i \in Indices : Rejected(i)) =>
             /\ batch.state = "rejected"
             /\ batch.result = <<>>

\* C9 witness: the batch rejected after another invocation had resolved
RejectedAfterSuccess ==
    /\ batch.state = "rejected"
    /\ Len(settled) = 2
    /\ Resolved(settled[1])
    /\ Rejected(settled[2])

\* the invocation that rejected first
FirstRejected ==
    settled[CHOOSE k \in 1..Len(settled) :
                /\ Rejected(settled[k])
                /\ \A m \in 1..(k - 1) : ~Rejected(settled[m])]

\* C10: no invocation settles before every invocation has started; the batch is
\* resolved only when all have resolved; and from the first rejection on the batch
\* is rejected with the error of the invocation that rejected first in time.
ConcurrentFailFast ==
    /\ (\E i \in Indices : calls[i].pc # "idle") =>
           \A j \in Indices : calls[j].pc # "idle"
    /\ batch.state = "resolved" => \A i \in Indices : Resolved(i)
    /\ (\E i \in Indices : Rejected(i)) =>
           /\ batch.state = "rejected"
           /\ batch.err = calls[FirstRejected].err

\* C10 witness: the second invocation rejects while the first is still decoding, the
\* first rejects later with another error, and the batch holds the second's error
LaterIndexRejectedFirst ==
    /\ Len(files) = 2
    /\ settled = <<2, 1>>
    /\ Rejected(1) /\ Rejected(2)
    /\ calls[1].err.msg # calls[2].err.msg
    /\ batch.err = calls[2].err

\* C11: once an image has failed to decode, its invocation is rejected with the decode
\* error, has made no toBlob call and holds no file, and the batch has no result.
DecodeFailureRejects ==
    \A i \in Indices :
        calls[i].failure = "decode" =>
            /\ Rejected(i)
            /\ calls[i].err = [msg |-> "Failed to load image", call |-> i]
            /\ calls[i].attempts = 0
            /\ calls[i].mime = ""
            /\ calls[i].out = NoFile
            /\ batch.state # "resolved"
            /\ batch.result = <<>>

\* C11 witness: img.onerror has fired for a file whose bytes were read
DecodeFailed ==
    \E i \in Indices :
        /\ calls[i].failure = "decode"
        /\ files[i].name = "noise.png"
        /\ run = 0

\* C12: the step in which a failure occurs makes no toBlob call and leaves the
\* invocation rejected with an error of its own and without a file, and no later step
\* changes an invocation in which a failure has occurred.
ErrorsAreTerminal ==
    [][\A i \in Indices :
           /\ calls[i].failure # "" => calls'[i] = calls[i]
           /\ calls'[i].failure # "" =>
                /\ calls'[i].pc = "rejected"
                /\ calls'[i].out = NoFile
                /\ calls'[i].err.call = i
                /\ calls'[i].err.msg # ""
           /\ calls[i].failure = "" /\ calls'[i].failure # "" =>
                calls'[i].attempts = calls[i].attempts]_vars

\* C12 witness: toBlob fails after the shrink step, earlier attempts having produced
\* blobs over budget
FailedLateInSearch ==
    \E i \in Indices :
        /\ calls[i].failure = "encode"
        /\ calls[i].attempts > 8
        /\ calls[i].prev.size > maxSize
        /\ Rejected(i)

\* what a caller reads off the message of a rejection value
ErrorKind(msg) ==
    CASE msg = "Failed to read file" -> "read"
      [] msg = "Failed to load image" -> "decode"
      [] msg = "Canvas context not available" -> "surface"
      [] msg = "Failed to create blob" -> "encode"
      [] OTHER -> ""

\* C13: the message of every rejection value names the failure that occurred: read,
\* decode, surface and encode failures carry four different messages.
FailuresDistinguishable ==
    \A i \in Indices :
        /\ Rejected(i) =>
             /\ calls[i].failure \in {"read", "decode", "surface", "encode"}
             /\ ErrorKind(calls[i].err.msg) = calls[i].failure
        /\ batch.state = "rejected" =>
             ErrorKind(batch.err.msg) = calls[batch.err.call].failure

\* C13 witness: of two images that were read, one fails to decode and the other
\* finds no canvas context
DecodeAndSurfaceFailures ==
    \E i, j \in Indices :
        /\ Rejected(i) /\ calls[i].failure = "decode"
        /\ Rejected(j) /\ calls[j].failure = "surface"

\* attempt number k of removeExifData run alone on files[i]: <<width, height, quality>>
RECURSIVE SoloAttempt(_, _)
SoloAttempt(i, k) ==
    IF k = 1
    THEN LET d == InitialDimensions(files[i].width, files[i].height, maxDimension)
         IN  <<d[1], d[2], Q092>>
    ELSE LET a == SoloAttempt(i, k - 1)
         IN  IF QualityAboveFloor(a[3])
             THEN <<a[1], a[2], LowerQuality(a[3])>>
             ELSE LET d == ShrinkDimensions(a[1], a[2])
                  IN  <<d[1], d[2], Q07>>

\* C14: whatever the other invocations of the batch have done, attempt number k of an
\* invocation is attempt number k of a run alone on its own file, its file is built from
\* its own input and attempt, and its error is its own.
NoInterference ==
    \A i \in Indices :
        /\ Attempted(i) =>
             /\ <<calls[i].w, calls[i].h, calls[i].q>> = SoloAttempt(i, calls[i].attempts)
             /\ calls[i].attempts >= 2 =>
                  <<calls[i].prev.w, calls[i].prev.h, calls[i].prev.q>>
                      = SoloAttempt(i, calls[i].attempts - 1)
        /\ Resolved(i) =>
             /\ calls[i].out.name = files[i].name
             /\ calls[i].out.width = Trunc(calls[i].w)
             /\ calls[i].out.height = Trunc(calls[i].h)
        /\ Rejected(i) => calls[i].err.call = i

\* C14 witness: two invocations in flight at once, one still at its initial dimensions
\* and the other past its shrink step
InterleavedSearches ==
    \E i, j \in Indices :
        /\ calls[i].pc = "encoding" /\ calls[i].attempts = 3
        /\ calls[j].pc = "encoding" /\ calls[j].attempts > 8
        /\ i # j

\* str ends with suffix, letter case aside
EndsWith(str, suffix) ==
    LET cs == ToLowerCase(Chars(str))
    IN  /\ Len(suffix) <= Len(cs)
        /\ SubSeq(cs, Len(cs) - Len(suffix) + 1, Len(cs)) = suffix

\* C15: the file the legacy variant returns keeps the input name and is typed by the
\* extension of that name: image/png for a .png name, image/gif for a .gif name,
\* image/jpeg for every other name.
LabelledByExtension ==
    legacy.pc = "resolved" =>
        /\ legacy.out.name = legacy.file.name
        /\ legacy.out.type =
             IF EndsWith(legacy.file.name, <<".", "p", "n", "g">>) THEN "image/png"
             ELSE IF EndsWith(legacy.file.name, <<".", "g", "i", "f">>) THEN "image/gif"
             ELSE "image/jpeg"

\* invocation i works on the 6000x4000 source with the default limits
PhotoAtDefaults(i) ==
    /\ files[i] = File("photo.jpg", "image/jpeg", 6000, 4000)
    /\ maxSize = DefaultMaxSize
    /\ maxDimension = DefaultMaxDimension

\* C16 as stated: for the 6000x4000 source with the defaults the returned image is at
\* most 4194304 bytes and measures exactly 1920x1280.
PhotoWithinBudgetAtMaxDimension ==
    \A i \in Indices :
        PhotoAtDefaults(i) /\ Resolved(i) =>
            /\ calls[i].out.size <= DefaultMaxSize
            /\ calls[i].out.width = DefaultMaxDimension
            /\ calls[i].out.height = 1280

\* C16: for the 6000x4000 source with the defaults the first eight attempts (quality
\* 0.92 down to 0.22) are made at exactly 1920x1280; an image returned from one of them
\* is at most 4194304 bytes and measures 1920x1280; when all eight are over budget the
\* dimensions are reduced and the returned image measures 800x533.
PhotoAtMaxDimensionWhileQualityLasts ==
    \A i \in Indices :
        PhotoAtDefaults(i) =>
            /\ Attempted(i) /\ calls[i].attempts <= 8 =>
                 /\ calls[i].w = RInt(DefaultMaxDimension)
                 /\ calls[i].h = RInt(1280)
            /\ Resolved(i) /\ calls[i].attempts <= 8 =>
                 /\ calls[i].out.size <= DefaultMaxSize
                 /\ calls[i].out.width = DefaultMaxDimension
                 /\ calls[i].out.height = 1280
            /\ Resolved(i) /\ calls[i].attempts > 8 =>
                 /\ calls[i].out.width = FloorDimension
                 /\ calls[i].out.height = 533

\* the 6000x4000 source returned after its dimensions were reduced below 1920x1280
PhotoShrunk ==
    \E i \in Indices :
        /\ PhotoAtDefaults(i)
        /\ Resolved(i)
        /\ calls[i].attempts > 8
        /\ calls[i].out.size > DefaultMaxSize

\* C17 as stated: the 4000x4000 source with the defaults, every encoding of which is
\* over maxSize, is returned over budget from an attempt with width <= 800,
\* height <= 800 and quality exactly 0.3.
AdversarialAcceptedAtQualityFloor ==
    \A i \in Indices :
        /\ files[i] = File("noise.png", "image/png", 4000, 4000)
        /\ maxSize = DefaultMaxSize
        /\ maxDimension = DefaultMaxDimension
        /\ Resolved(i)
        /\ calls[i].out.size > maxSize
        => /\ RLeq(calls[i].w, RInt(FloorDimension))
           /\ RLeq(calls[i].h, RInt(FloorDimension))
           /\ calls[i].q = Q03

\* a is an integer >= 1
PositiveInteger(a) == a[2] = 1 /\ a[1] >= 1

\* C18 as stated: at every encoding attempt targetWidth and targetHeight are positive
\* integers.
TargetDimensionsPositiveIntegers ==
    \A i \in Indices :
        Attempted(i) => PositiveInteger(calls[i].w) /\ PositiveInteger(calls[i].h)

\* the initial target dimensions of a w0 x h0 source, as the specification words them
ScaledToMaxDimension(w0, h0, maxDim) ==
    IF w0 > maxDim \/ h0 > maxDim
    THEN IF w0 >= h0
         THEN <<RInt(maxDim), Rat(h0 * maxDim, w0)>>
         ELSE <<Rat(w0 * maxDim, h0), RInt(maxDim)>>
    ELSE <<RInt(w0), RInt(h0)>>

\* attempt a of invocation i is made at quality 0.92 and the initial target dimensions
IsFirstAttempt(i, a) ==
    /\ a.q = Q092
    /\ <<a.w, a.h>> = ScaledToMaxDimension(files[i].width, files[i].height, maxDimension)

\* C19: the first encoding attempt uses quality 0.92 and the initial target dimensions
\* (longer side maxDimension and the shorter side scaled by the same factor when the
\* source exceeds maxDimension, the source dimensions otherwise); a 500x500 source
\* accepted at the first attempt is returned at 500x500.
FirstAttemptAtInitialDimensions ==
    \A i \in Indices :
        /\ calls[i].attempts = 1 => IsFirstAttempt(i, calls[i])
        /\ calls[i].attempts = 2 => IsFirstAttempt(i, calls[i].prev)
        /\ Resolved(i) /\ calls[i].attempts = 1
               /\ files[i].width = 500 /\ files[i].height = 500
               /\ maxDimension >= 500 =>
             calls[i].out.width = 500 /\ calls[i].out.height = 500

\* the 500x500 source, within budget, returned from its first attempt
SmallReturnedAtFirstAttempt ==
    \E i \in Indices :
        /\ files[i] = File("small.gif", "image/gif", 500, 500)
        /\ Resolved(i)
        /\ calls[i].attempts = 1
        /\ calls[i].out.size <= maxSize

\* C20: the size check comes first: every attempt that was followed by another attempt
\* was over maxSize, so no attempt is made after one within budget, and a file
\* returned within budget is the blob of the attempt just made, whatever its quality
\* and dimensions.
SizeCheckFirst ==
    \A i \in Indices :
        /\ calls[i].attempts >= 2 => calls[i].prev.size > maxSize
        /\ Resolved(i) /\ calls[i].out.size <= maxSize =>
             /\ calls[i].out.width = Trunc(calls[i].w)
             /\ calls[i].out.height = Trunc(calls[i].h)

\* a blob within budget returned although the quality is at its floor and the
\* dimensions are above 800
WithinBudgetBeforeShrink ==
    \E i \in Indices :
        /\ Resolved(i)
        /\ calls[i].attempts >= 2
        /\ calls[i].out.size <= maxSize
        /\ ~QualityAboveFloor(calls[i].q)
        /\ AboveFloorDimension(calls[i].w, calls[i].h)

\* the current attempt of invocation i followed another one
Followed(i) == calls[i].attempts >= 2

\* the current attempt of invocation i has other dimensions than the one before it
DimensionsChanged(i) ==
    Followed(i) /\ <<calls[i].w, calls[i].h>> # <<calls[i].prev.w, calls[i].prev.h>>

\* C21: quality reduction precedes dimension reduction: the attempt that follows an
\* over-budget attempt of quality > 0.3 has the same width and height and the quality
\* `quality - 0.1` (one binary64 subtraction); the dimensions change only after an
\* attempt of quality <= 0.3.
QualityBeforeDimensions ==
    \A i \in Indices :
        /\ Followed(i) /\ QGreater(calls[i].prev.q, Q03) =>
             /\ calls[i].prev.size > maxSize
             /\ calls[i].w = calls[i].prev.w
             /\ calls[i].h = calls[i].prev.h
             /\ calls[i].q = QSub(calls[i].prev.q, Q01)
        /\ DimensionsChanged(i) => QLeq(calls[i].prev.q, Q03)

\* a search whose quality steps were used up before its dimensions changed
ShrunkAfterQualityExhausted ==
    \E i \in Indices :
        /\ DimensionsChanged(i)
        /\ calls[i].attempts = 8 + 1
        /\ calls[i].pc = "encoding"

\* C22: a shrink step happens exactly when an attempt is over budget with quality
\* <= 0.3 and width > 800 or height > 800: the dimensions change after such an attempt
\* and after no other, such an attempt is never the accepted one, and the attempt that
\* follows the shrink has quality exactly 0.7.
ShrinkExactlyAtQualityFloor ==
    \A i \in Indices :
        /\ Followed(i) =>
             (DimensionsChanged(i) <=>
                 /\ calls[i].prev.size > maxSize
                 /\ QLeq(calls[i].prev.q, Q03)
                 /\ \/ RLess(RInt(FloorDimension), calls[i].prev.w)
                    \/ RLess(RInt(FloorDimension), calls[i].prev.h))
        /\ DimensionsChanged(i) => calls[i].q = Q07
        /\ Resolved(i) /\ calls[i].out.size > maxSize /\ QLeq(calls[i].q, Q03) =>
             /\ RLeq(calls[i].w, RInt(FloorDimension))
             /\ RLeq(calls[i].h, RInt(FloorDimension))

\* the attempt right after a shrink step taken for the width alone, still to be encoded
RestartedAfterShrink ==
    \E i \in Indices :
        /\ DimensionsChanged(i)
        /\ calls[i].q = Q07
        /\ calls[i].pc = "encoding"
        /\ RLess(RInt(FloorDimension), calls[i].prev.w)
        /\ RLeq(calls[i].prev.h, RInt(FloorDimension))

\* the larger of two rationals
RMax(a, b) == IF RLess(a, b) THEN b ELSE a

\* C23 as stated: a shrink step multiplies width and height by 0.8, except that it
\* never takes the longer side below 800.
ShrinkByOneFifth ==
    \A i \in Indices :
        DimensionsChanged(i) =>
            LET old == calls[i].prev
                fifth == Rat(8, 10)
            IN  /\ RLeq(RInt(FloorDimension), RMax(calls[i].w, calls[i].h))
                /\ RLeq(RInt(FloorDimension), RMul(RMax(old.w, old.h), fifth)) =>
                     /\ calls[i].w = RMul(old.w, fifth)
                     /\ calls[i].h = RMul(old.h, fifth)

\* C24 as stated: no encoding attempt uses a quality below 0.3.
QualityNeverBelowFloor ==
    \A i \in Indices : Attempted(i) => QLeq(Q03, calls[i].q)

\* the attempts a search makes before its dimensions can change: 0.92 down to 0.22
AttemptsBeforeShrink == 8

\* in invocation i the dimensions change at most once, between the attempts numbered
\* AttemptsBeforeShrink and AttemptsBeforeShrink + 1, and are at most 800x800 from
\* then on
AtMostOneShrink(i) ==
    /\ DimensionsChanged(i) => calls[i].attempts = AttemptsBeforeShrink + 1
    /\ calls[i].attempts > AttemptsBeforeShrink =>
         /\ RLeq(calls[i].w, RInt(FloorDimension))
         /\ RLeq(calls[i].h, RInt(FloorDimension))

----------------------------------------------------------------------------
(* both variants of removeExifData, with the callbacks the browser owes *)

\* one invocation of either variant (the invocations of a batch do not interfere)
InitSettle == (Init /\ Len(files) <= 1) \/ InitLegacy

NextSettle ==
    \/ Next
    \/ legacy # NoLegacy /\ NextLegacy

\* a FileReader that was started fires onload or onerror
ReaderFires(i) == i \in Indices /\ (ReaderOnload(i) \/ ReaderOnerror(i))

\* an Image whose src was set fires onload or onerror
ImageFires(i) == i \in Indices /\ (ImgOnload(i) \/ ImgOnerror(i))

\* toBlob calls its callback
ToBlobFires(i) == i \in Indices /\ ToBlob(i)

LegacyReaderFires ==
    legacy # NoLegacy
    /\ (LegacyReaderOnload \/ LegacyReaderOnloadEmpty \/ LegacyReaderOnerror)

LegacyImageFires ==
    legacy # NoLegacy
    /\ (LegacyImgOnload \/ LegacyImgOnloadNoContext \/ LegacyImgOnerror)

LegacyToBlobFires == legacy # NoLegacy /\ (LegacyToBlob \/ LegacyToBlobNull)

CallbacksFire ==
    /\ \A i \in 1..MaxFiles :
         WF_vars(ReaderFires(i)) /\ WF_vars(ImageFires(i)) /\ WF_vars(ToBlobFires(i))
    /\ WF_vars(LegacyReaderFires)
    /\ WF_vars(LegacyImageFires)
    /\ WF_vars(LegacyToBlobFires)

SpecSettle == InitSettle /\ [][NextSettle]_vars /\ CallbacksFire

\* a call that was started and has not settled
IsPending(c) == c.pc \notin {"idle", "resolved", "rejected"}

\* a settled call holds a file or an error, not both, and a pending one neither
OneOutcome(c) ==
    /\ c.pc = "resolved" => c.out # NoFile /\ c.err = NoError
    /\ c.pc = "rejected" => c.err # NoError /\ c.out = NoFile
    /\ ~IsSettled(c) => c.out = NoFile /\ c.err = NoError

\* C26: an invocation settles exactly once: it holds one file or one error, never
\* both; it enters the settle order once; while it is pending a callback is still to
\* fire; and with the reader, image and toBlob callbacks firing it settles eventually.
SettlesExactlyOnce ==
    /\ [](\A i \in Indices :
            /\ OneOutcome(calls[i])
            /\ Cardinality({k \in DOMAIN settled : settled[k] = i})
                 = IF IsSettled(calls[i]) THEN 1 ELSE 0
            /\ IsPending(calls[i]) =>
                 ENABLED (ReaderFires(i) \/ ImageFires(i) \/ ToBlobFires(i)))
    /\ [](/\ OneOutcome(legacy)
          /\ IsPending(legacy) =>
               ENABLED (LegacyReaderFires \/ LegacyImageFires \/ LegacyToBlobFires))
    /\ \A i \in 1..MaxFiles :
         (i \in Indices /\ IsPending(calls[i])) ~> (i \in Indices /\ IsSettled(calls[i]))
    /\ IsPending(legacy) ~> IsSettled(legacy)

\* an invocation rejected, with nothing returned, by the last callback of a search that
\* had shrunk the dimensions
SettledAtLastCallback ==
    \E i \in Indices :
        /\ Rejected(i)
        /\ calls[i].out = NoFile
        /\ calls[i].attempts > AttemptsBeforeShrink
        /\ settled = <<i>>

\* C27 as stated: in the legacy variant the type declared on the returned file is the
\* type the canvas was asked to encode.
LegacyTypeIsEncodedType ==
    legacy.pc = "resolved" => legacy.out.type = legacy.mime

----------------------------------------------------------------------------
(* the post list of the profile and location pages *)

\* C28 as stated: allPosts holds each post id at most once.
NoDuplicatePosts ==
    \A j, k \in DOMAIN page.allPosts :
        page.allPosts[j].id = page.allPosts[k].id => j = k

\* the length of the page fetched last, -1 when none was
LastFetched ==
    IF page.fetched = <<>> THEN -1 ELSE page.fetched[Len(page.fetched)]

\* C29 as stated: hasMorePosts is false only after a fetched page with fewer than
\* POSTS_PER_PAGE posts (or a null answer for a page > 0), and is true after a fetched
\* page with exactly POSTS_PER_PAGE posts, whatever like changes and deletions follow.
HasMoreFollowsFetchedPage ==
    /\ ~page.hasMorePosts =>
         \/ page.postsData.kind = "posts" /\ LastFetched < POSTS_PER_PAGE
         \/ page.postsData.kind = "null" /\ page.postsPage > 0
    /\ page.postsData.kind = "posts" /\ LastFetched = POSTS_PER_PAGE =>
         page.hasMorePosts

\* C30: postsPage changes only by loadMorePosts adding 1 while isLoadingMorePosts and
\* postsLoading are false and hasMorePosts is true, the page before it having been
\* fetched; the offsets requested are 0, POSTS_PER_PAGE, 2 * POSTS_PER_PAGE, ... in
\* this order, none twice and none skipped, one per value of postsPage.
PagesAdvanceOneByOne ==
    /\ [][page'.postsPage # page.postsPage =>
            /\ page'.postsPage = page.postsPage + 1
            /\ ~page.isLoadingMorePosts
            /\ ~PostsLoading(page)
            /\ page.hasMorePosts
            /\ page.postsData.kind = "posts"
            /\ Len(page.fetched) = page.postsPage + 1
            /\ page'.isLoadingMorePosts
            /\ PostsLoading(page')]_vars
    /\ [](/\ Len(page.requested) = page.postsPage + 1
          /\ \A k \in DOMAIN page.requested :
               page.requested[k] = (k - 1) * POSTS_PER_PAGE)

\* the third page requested while the observer callback is still flagged as handling
ThirdPageRequested ==
    /\ page.postsPage = 2
    /\ page.isLoadingMorePosts
    /\ page.fetching
    /\ page.isHandling

====
